---- MODULE Spec2Model ----
(***************************************************************************)
(* Model of src/src/l32.rs: the 32-bit logarithmic number type L32 and its *)
(* operators.  A value is the u32 inside L32, kept at its full width as    *)
(* two 16-bit limbs <<hi, lo>> (hi = bits 31..16, lo = bits 15..0), so     *)
(* that wrapping arithmetic, masks and shifts are computed as the code     *)
(* computes them.                                                          *)
(***************************************************************************)
EXTENDS Integers, Sequences, FiniteSets, TLC

\* Number of operator applications in one run.
MaxSteps == 2

W(hi, lo) == <<hi, lo>>

\* L32::ZERO = 0x40000000 and L32::ONE = 0
ZERO == W(16384, 0)
ONE == W(0, 0)
\* 0xC0000000, the pattern the tests call NaR
NAR == W(49152, 0)

\* u32 values the tests use (mul, div, sqrt and add vectors)
X00000001 == W(0, 1)
X3FFFFFFF == W(16383, 65535)
X40000001 == W(16384, 1)
X60000000 == W(24576, 0)
X7FFFFFFF == W(32767, 65535)
X80000001 == W(32768, 1)
XBFFFFFFF == W(49151, 65535)
XDEADBEEF == W(57005, 48879)
X1D9D9D9C == W(7581, 40348)

Inputs ==
    {ZERO, ONE, NAR, X00000001, X3FFFFFFF, X40000001, X7FFFFFFF,
     X80000001, XBFFFFFFF, XDEADBEEF}

\* ---- u32 primitives ------------------------------------------------------

\* bit 31 of a word
SignBit(w) == w[1] \div (2^15)

\* w & 0x7FFFFFFF
Mask31(w) == W(w[1] % (2^15), w[2])

\* a ^ b, restricted to bit 31 by the mask that follows it in mul and div
XorSign(a, b) == W(((SignBit(a) + SignBit(b)) % 2) * (2^15), 0)

\* w ^ 0x80000000
FlipSign(w) == W((w[1] + 2^15) % (2^16), w[2])

\* sign | exp, where sign has only bit 31 and exp has bit 31 clear
OrSign(sign, exp) == W(sign[1] + exp[1], exp[2])

\* u32::wrapping_add
WrappingAdd(a, b) ==
    LET lo == a[2] + b[2]
        hi == a[1] + b[1] + (lo \div (2^16))
    IN  W(hi % (2^16), lo % (2^16))

\* u32::wrapping_sub
WrappingSub(a, b) ==
    LET borrow == IF a[2] < b[2] THEN 1 ELSE 0
        lo == a[2] + borrow * (2^16) - b[2]
        hi == a[1] + 2^16 - b[1] - borrow
    IN  W(hi % (2^16), lo)

\* self.0 << 1 on u32
Shl1(w) == W((w[1] * 2 + (w[2] \div (2^15))) % (2^16), (w[2] * 2) % (2^16))

\* (x as i32) >> 2: arithmetic shift, bit 31 is copied into bits 31 and 30
Sar2(w) ==
    LET fill == IF SignBit(w) = 1 THEN 2^15 + 2^14 ELSE 0
    IN  W(fill + (w[1] \div 4), (w[1] % 4) * (2^14) + (w[2] \div 4))

\* ---- operators of L32 ----------------------------------------------------

\* sqrt with a logical shift (zeros come in at the top) for the arithmetic one
sqrt_logical(self) ==
    LET x == Shl1(self)
        exp == W(x[1] \div 4, (x[1] % 4) * (2^14) + (x[2] \div 4))
        res == Mask31(exp)
    IN  IF self = ZERO THEN ZERO ELSE res

sqrt(self) ==
    LET exp == Sar2(Shl1(self))
        res == Mask31(exp)
    IN  IF self = ZERO THEN ZERO ELSE res

\* mul that adds the words whole, letting the field's carry reach bit 31
mul_carry(self, rhs) ==
    LET res == WrappingAdd(self, rhs)
    IN  IF self = ZERO \/ rhs = ZERO THEN ZERO ELSE res

mul(self, rhs) ==
    LET sign == XorSign(self, rhs)
        exp == Mask31(WrappingAdd(self, rhs))
        res == OrSign(sign, exp)
    IN  IF self = ZERO \/ rhs = ZERO THEN ZERO ELSE res

\* div that adds the exponents instead of subtracting them
div_add(self, rhs) ==
    LET sign == XorSign(self, rhs)
        exp == Mask31(WrappingAdd(self, rhs))
        res == OrSign(sign, exp)
    IN  IF self = ZERO THEN ZERO ELSE res

div(self, rhs) ==
    LET sign == XorSign(self, rhs)
        exp == Mask31(WrappingSub(self, rhs))
        res == OrSign(sign, exp)
    IN  IF self = ZERO THEN ZERO ELSE res

\* The values the mantissa path of add (decompose, align, sum, re-encode)
\* may leave in res before the overrides.  The source of that path is not
\* complete, so its result is left unconstrained over this set.
AddRaw == {ONE, NAR, X1D9D9D9C}

\* add without the override for rhs == ZERO
add_first_only(self, rhs, raw) ==
    IF self = ZERO THEN rhs ELSE raw

\* add: res is the mantissa path's result, then the two ZERO overrides in
\* the order of the code (the second one wins when both apply).
add(self, rhs, raw) ==
    LET res1 == IF self = ZERO THEN rhs ELSE raw
    IN  IF rhs = ZERO THEN self ELSE res1

\* neg without the special case for ZERO
neg_unconditional(self) == FlipSign(self)

neg(self) ==
    LET res == FlipSign(self)
    IN  IF self = ZERO THEN ZERO ELSE res

sub(self, rhs, raw) == add(self, neg(rhs), raw)

\* ---- state ---------------------------------------------------------------

VARIABLES
    acc,    \* the value operated on (*self of the assign operators)
    op,     \* the last operator applied
    lhs,    \* its left operand (acc before it)
    rhs,    \* its right operand (lhs again for neg and sqrt)
    raw,    \* what the mantissa path produced, for add and sub
    pop,    \* the operator applied before the last one
    plhs,   \* and its operands
    prhs,
    steps

vars == <<acc, op, lhs, rhs, raw, pop, plhs, prhs, steps>>

Ops == {"none", "mul", "div", "add", "sub", "neg", "sqrt"}

TypeOK ==
    /\ acc \in (0..65535) \X (0..65535)
    /\ op \in Ops /\ pop \in Ops
    /\ steps \in 0..MaxSteps

Init ==
    /\ acc \in Inputs
    /\ op = "none" /\ pop = "none"
    /\ lhs = acc /\ rhs = acc /\ raw = ONE
    /\ plhs = acc /\ prhs = acc
    /\ steps = 0

Record(o, r, m, result) ==
    /\ steps < MaxSteps
    /\ steps' = steps + 1
    /\ pop' = op /\ plhs' = lhs /\ prhs' = rhs
    /\ op' = o /\ lhs' = acc /\ rhs' = r /\ raw' = m
    /\ acc' = result

\* *self = *self * rhs
MulAssign == \E r \in Inputs : Record("mul", r, ONE, mul(acc, r))

\* *self = *self / rhs
DivAssign == \E r \in Inputs : Record("div", r, ONE, div(acc, r))

\* *self = *self + rhs
AddAssign ==
    \E r \in Inputs, m \in AddRaw : Record("add", r, m, add(acc, r, m))

\* *self = *self - rhs
SubAssign ==
    \E r \in Inputs, m \in AddRaw : Record("sub", r, m, sub(acc, r, m))

Neg == Record("neg", acc, ONE, neg(acc))

Sqrt == Record("sqrt", acc, ONE, sqrt(acc))

Next ==
    \/ MulAssign
    \/ DivAssign
    \/ AddAssign
    \/ SubAssign
    \/ Neg
    \/ Sqrt

Spec == Init /\ [][Next]_vars

\* ---- reading a value -----------------------------------------------------

\* bits 0..30 as an unsigned number
ExpField(w) == (w[1] % (2^15)) * (2^16) + w[2]

\* bits 0..30 as a two's-complement number
SignedExp(w) ==
    IF ExpField(w) >= 2^30 THEN (ExpField(w) - 2^30) - 2^30 ELSE ExpField(w)

\* 2^31 - 1
MaxExp == (2^30 - 1) + 2^30

\* (e1 + e2) mod 2^31 for e1, e2 in 0 .. 2^31 - 1
AddMod31(e1, e2) ==
    IF e1 > MaxExp - e2 THEN (e1 - (MaxExp - e2)) - 1 ELSE e1 + e2

NonSentinel(w) == w # ZERO /\ w # NAR

\* ---- claims ---------------------------------------------------------------

\* C1: multiplication absorbs NAR: whenever an operand of mul is NAR (the
\* other may be anything, ZERO included), the product is NAR.
C1_MulAbsorbsNar ==
    (op = "mul" /\ (lhs = NAR \/ rhs = NAR)) => acc = NAR

\* C2: division by zero yields NAR: for a dividend that is neither ZERO nor
\* NAR, div(a, ZERO) is NAR.
C2_DivByZeroIsNar ==
    (op = "div" /\ rhs = ZERO /\ NonSentinel(lhs)) => acc = NAR

\* C3: square root of any value with bit 31 set (NAR included) is NAR.
C3_SqrtNegativeIsNar ==
    (op = "sqrt" /\ SignBit(lhs) = 1) => acc = NAR

\* C4: subtraction absorbs NAR: sub(a, NAR) is NAR for every a.
C4_SubAbsorbsNar ==
    (op = "sub" /\ rhs = NAR) => acc = NAR

\* C5: division propagates NAR: div(a, NAR) and div(NAR, a) are NAR for
\* every a.
C5_DivPropagatesNar ==
    (op = "div" /\ (lhs = NAR \/ rhs = NAR)) => acc = NAR

\* C6: neg(ZERO) is ZERO, and for every other x neg(x) is x with bit 31
\* flipped and bits 0..30 unchanged.
C6_NegKeepsZero ==
    op = "neg" =>
        /\ lhs = ZERO => acc = ZERO
        /\ lhs # ZERO =>
            /\ SignBit(acc) = 1 - SignBit(lhs)
            /\ ExpField(acc) = ExpField(lhs)

C6_Witness ==
    /\ op = "neg" /\ lhs = ZERO /\ acc = ZERO
    /\ pop = "neg" /\ plhs = NAR

\* C7: ZERO is the additive identity: for every a other than NAR,
\* add(a, ZERO) and add(ZERO, a) are a, bit for bit, whatever the mantissa
\* path produced.
C7_AddZeroIdentity ==
    op = "add" =>
        /\ (rhs = ZERO /\ lhs # NAR) => acc = lhs
        /\ (lhs = ZERO /\ rhs # NAR) => acc = rhs

C7_Witness ==
    /\ op = "add" /\ lhs = XDEADBEEF /\ rhs = ZERO
    /\ raw # lhs /\ acc = XDEADBEEF

\* C8: multiplication wraps: for operands that are neither ZERO nor NAR the
\* product's bit 31 is the XOR of the operands' bit 31 and its 31-bit field
\* is the sum of the operands' fields mod 2^31, with no carry into bit 31;
\* so mul(0xBFFFFFFF, 1) is 0xC0000000 and mul(0x3FFFFFFF, 1) is 0x40000000.
C8_MulWraps ==
    (op = "mul" /\ NonSentinel(lhs) /\ NonSentinel(rhs)) =>
        /\ SignBit(acc) = (SignBit(lhs) + SignBit(rhs)) % 2
        /\ ExpField(acc) = AddMod31(ExpField(lhs), ExpField(rhs))
        /\ (lhs = XBFFFFFFF /\ rhs = X00000001) => acc = NAR
        /\ (lhs = X3FFFFFFF /\ rhs = X00000001) => acc = ZERO

C8_Witness ==
    op = "mul" /\ lhs = XBFFFFFFF /\ rhs = X00000001 /\ acc = NAR

\* C9: square root halves the exponent with floor rounding: for x with bit
\* 31 clear and x # ZERO, sqrt(x) has bit 31 clear and its signed 31-bit
\* field is floor(e / 2), e the signed 31-bit field of x; sqrt(0x40000001)
\* is 0x60000000, sqrt(0x7FFFFFFF) is 0x7FFFFFFF, and sqrt(ZERO) is ZERO.
C9_SqrtHalvesFloor ==
    op = "sqrt" =>
        /\ (SignBit(lhs) = 0 /\ lhs # ZERO) =>
            /\ SignBit(acc) = 0
            /\ SignedExp(acc) = SignedExp(lhs) \div 2
        /\ lhs = X40000001 => acc = X60000000
        /\ lhs = X7FFFFFFF => acc = X7FFFFFFF
        /\ lhs = ZERO => acc = ZERO

C9_Witness ==
    op = "sqrt" /\ lhs = X40000001 /\ acc = X60000000

\* A division that takes the product of the multiplication before it and
\* divides it by the same right operand.
DivAfterMul ==
    /\ op = "div" /\ pop = "mul"
    /\ rhs = prhs
    /\ NonSentinel(plhs) /\ NonSentinel(prhs)

====
